---- MODULE Spec2Model ----
(***************************************************************************)
(* Token lifecycle of the service: issuance, verification, refresh         *)
(* rotation and revocation of signed access/refresh pairs                  *)
(* (apps/auth/services.py), the persisted revocation ledger                *)
(* (apps/auth/models.py), the JWT request gate                             *)
(* (core/middleware/jwt_middleware.py) and the error boundary              *)
(* (core/middleware/exc_middleware.py, core/exceptions.py, main.py); the   *)
(* users and projects services with their tables (apps/user,               *)
(* apps/project).                                                          *)
(*                                                                         *)
(* Every request is served by one of a fixed number of request slots.  A   *)
(* slot runs one request at a time; a request is cut into steps at its     *)
(* awaits on the database, so that steps of different requests interleave. *)
(***************************************************************************)
EXTENDS Integers, FiniteSets, Sequences, TLC

(* ------------------------------ bounds -------------------------------- *)
NumUsers == 2      \* user ids 1..NumUsers
MaxPairs == 3      \* token pairs minted in one behaviour, requests in flight together
SeqPairs == 2      \* token pairs minted in one behaviour, one request at a time
MaxProjects == 3   \* project ids drawn in one behaviour
PER_PAGE_MAX == 2  \* core.constants.PER_PAGE_MAX, the cap of per_page, scaled down

(* ------------------------ program constants --------------------------- *)
ACCESS_TTL_MIN == 15
REFRESH_TTL_DAYS == 7
SECRET_KEY == "SECRET_KEY"
ALGORITHM == "HS256"

SecondsPerMinute == 60
SecondsPerDay == 86400
AccessTtl == ACCESS_TTL_MIN * SecondsPerMinute
RefreshTtl == REFRESH_TTL_DAYS * SecondsPerDay

\* unix time of the first request of a behaviour
Epoch == 1000
\* the clock jumps from instant to instant: the first request, and the
\* expiry of the access and of the refresh token minted at the first request
Instants == {Epoch, Epoch + AccessTtl, Epoch + RefreshTtl}

\* two requests in flight at a time: the least number that shows every
\* interleaving of two requests
Slots == {1, 2}
Users == 1..NumUsers

(* ------------------------------ tokens -------------------------------- *)
\* A compact JWT is modelled by its claim set, the key its signature was
\* made with and the algorithm of its header; form "garbage" is a string
\* that is not a JWT at all.
NoToken ==
    [form |-> "none", sub |-> 0, type |-> "none", jti |-> 0, iat |-> 0,
     exp |-> 0, key |-> "", alg |-> ""]
Garbage == [NoToken EXCEPT !.form = "garbage"]
\* the same claims re-signed by somebody who does not know SECRET_KEY
Forge(tok) == [tok EXCEPT !.key = "ATTACKER_KEY"]
\* the same claims under a header that names another algorithm
Unsigned(tok) == [tok EXCEPT !.alg = "none"]

\* uuid4().hex: a value no earlier call returned; ctr counts the calls
uuid4Const(ctr) == 1
uuid4(ctr) == ctr + 1

_encode_token_det(sub, typ, iat, exp, ctr) ==
    [form |-> "jwt", sub |-> sub, type |-> typ,
     jti |-> 2 * sub + (IF typ = "access" THEN 0 ELSE 1),
     iat |-> iat, exp |-> exp, key |-> SECRET_KEY, alg |-> ALGORITHM]
_encode_token(sub, typ, iat, exp, ctr) ==
    [form |-> "jwt", sub |-> sub, type |-> typ, jti |-> uuid4(ctr),
     iat |-> iat, exp |-> exp, key |-> SECRET_KEY, alg |-> ALGORITHM]

(* ----------------------------- exceptions ----------------------------- *)
MsgTokenExpired == "Token expired"                  \* 'Токен истёк'
MsgTokenInvalid == "Invalid token"                  \* 'Недействительный токен'
MsgExpectedRefresh == "refresh token expected"      \* 'ожидался refresh-токен'
MsgRefreshRevoked == "refresh token revoked"        \* 'refresh-токен отозван'
MsgExpectedAccess == "access token expected"        \* 'Ожидался access-токен'
MsgUnexpected == "Unexpected error"       \* 'Произошла непредвиденная ошибка'
MsgDatabaseError == "database error"                \* 'Ошибка базы данных'
MsgNotAuthenticated == "Not authenticated"
MsgOk == "ok"
MsgInvalidCredentials == "Invalid login or password" \* 'Неверный логин или пароль'
MsgUsernameExists == "user with this username exists"
MsgEmailExists == "user with this email exists"

NoExc == [kind |-> "none", status |-> 0, detail |-> ""]
TokenExpired == [kind |-> "TokenExpired", status |-> 401, detail |-> MsgTokenExpired]
TokenInvalid(detail) == [kind |-> "TokenInvalid", status |-> 401, detail |-> detail]
InvalidCredentials(detail) ==
    [kind |-> "InvalidCredentials", status |-> 401, detail |-> detail]
\* detail: 'Пользователь с таким {field} уже существует'
UserAlreadyExistsException(field) ==
    [kind |-> "UserAlreadyExistsException", status |-> 409,
     detail |-> IF field = "username" THEN MsgUsernameExists
                ELSE MsgEmailExists]
IntegrityError == [kind |-> "IntegrityError", status |-> 0, detail |-> ""]
\* what session.execute raises when the database cannot be reached: an
\* error of the driver wrapped by SQLAlchemy, or one that is not wrapped
DBAPIError == [kind |-> "DBAPIError", status |-> 0, detail |-> ""]
OSError == [kind |-> "OSError", status |-> 0, detail |-> ""]
StorageFailures == {DBAPIError, OSError}

\* signature and algorithm are verified first, the exp claim after them
_decode_token_expfirst(tok, t) ==
    IF tok.form # "jwt"
    THEN [exc |-> TokenInvalid(MsgTokenInvalid), payload |-> NoToken]
    ELSE IF tok.exp <= t
         THEN [exc |-> TokenExpired, payload |-> NoToken]
         ELSE IF tok.alg # ALGORITHM \/ tok.key # SECRET_KEY
              THEN [exc |-> TokenInvalid(MsgTokenInvalid), payload |-> NoToken]
              ELSE [exc |-> NoExc, payload |-> tok]
_decode_token_late(tok, t) ==
    IF tok.form # "jwt" \/ tok.alg # ALGORITHM \/ tok.key # SECRET_KEY
    THEN [exc |-> TokenInvalid(MsgTokenInvalid), payload |-> NoToken]
    ELSE IF tok.exp < t
         THEN [exc |-> TokenExpired, payload |-> NoToken]
         ELSE [exc |-> NoExc, payload |-> tok]
_decode_token(tok, t) ==
    IF tok.form # "jwt" \/ tok.alg # ALGORITHM \/ tok.key # SECRET_KEY
    THEN [exc |-> TokenInvalid(MsgTokenInvalid), payload |-> NoToken]
    ELSE IF tok.exp <= t
         THEN [exc |-> TokenExpired, payload |-> NoToken]
         ELSE [exc |-> NoExc, payload |-> tok]

decode_access_any(tok, t) == _decode_token(tok, t)
decode_access(tok, t) ==
    LET d == _decode_token(tok, t)
    IN  IF d.exc # NoExc THEN d
        ELSE IF d.payload.type # "access"
             THEN [exc |-> TokenInvalid(MsgExpectedAccess), payload |-> NoToken]
             ELSE d

\* AuthService.refresh up to the ledger lookup: decode, then the type, then
\* the token id
refresh_decode_any(tok, t) == _decode_token(tok, t)
refresh_decode(tok, t) ==
    LET d == _decode_token(tok, t)
    IN  IF d.exc # NoExc THEN d
        ELSE IF d.payload.type # "refresh"
             THEN [exc |-> TokenInvalid(MsgExpectedRefresh), payload |-> NoToken]
        ELSE IF d.payload.jti = 0
             THEN [exc |-> TokenInvalid(MsgRefreshRevoked), payload |-> NoToken]
        ELSE d

\* a revocation that takes a token of any type
revoke_decode_any(tok, t) == _decode_token(tok, t)
\* AuthService.revoke_refresh_token up to the insert: decode, then the type
revoke_decode(tok, t) ==
    LET d == _decode_token(tok, t)
    IN  IF d.exc # NoExc THEN d
        ELSE IF d.payload.type # "refresh"
             THEN [exc |-> TokenInvalid(MsgExpectedRefresh), payload |-> NoToken]
        ELSE d

(* --------------------------- issuing pairs ---------------------------- *)
NoPair == [access_token |-> NoToken, refresh_token |-> NoToken]

\* an issuer that reads the clock once for each token
issue_tokens_two_readings(uid, t, c) ==
    [access_token |-> _encode_token(uid, "access", t, t + AccessTtl, c),
     refresh_token |->
        _encode_token(uid, "refresh", t + 1, t + 1 + RefreshTtl, c + 1)]
\* AuthService.issue_tokens: one reading of the clock for both tokens
issue_tokens(uid, t, c) ==
    [access_token |-> _encode_token(uid, "access", t, t + AccessTtl, c),
     refresh_token |-> _encode_token(uid, "refresh", t, t + RefreshTtl, c + 1)]

\* settings.Settings: the two durations, which the environment can override
\* with any integer
Settings(access_ttl_min, refresh_ttl_days) ==
    [ACCESS_TTL_MIN |-> access_ttl_min, REFRESH_TTL_DAYS |-> refresh_ttl_days]
\* AuthService.issue_tokens in a process started with the settings cfg
issue_tokens_under(cfg, uid, t, c) ==
    [access_token |->
        _encode_token(uid, "access", t,
                      t + cfg.ACCESS_TTL_MIN * SecondsPerMinute, c),
     refresh_token |->
        _encode_token(uid, "refresh", t,
                      t + cfg.REFRESH_TTL_DAYS * SecondsPerDay, c + 1)]

\* the tail of AuthService.refresh, after the ledger lookup
refresh_mint_first(sub, t, c) == issue_tokens(1, t, c)
refresh_mint(sub, t, c) ==
    [access_token |-> _encode_token(sub, "access", t, t + AccessTtl, c),
     refresh_token |-> _encode_token(sub, "refresh", t, t + RefreshTtl, c + 1)]

(* ------------------------------- state -------------------------------- *)
VARIABLES
    now,      \* the clock, unix seconds
    ledger,   \* committed rows of auth_revoked_tokens
    issued,   \* every token the service has signed
    ctr,      \* how many token ids have been drawn
    slot,     \* the request of each slot
    rotations, \* history, kept where a step asks for it: the refresh
               \* token each rotated pair came from
    users,     \* committed rows of the users table
    projects,  \* committed rows of the projects table
    seq        \* the last value drawn from users_id_seq and projects_id_seq
vars == <<now, ledger, issued, ctr, slot, rotations, users, projects, seq>>

(* ------------------------- revocation ledger -------------------------- *)
\* auth_revoked_tokens: rows (jti, revoked_at), primary key jti
LedgerJtis(rows) == {r.jti : r \in rows}

\* SELECT 1 FROM auth_revoked_tokens WHERE jti = :jti ... scalar() is not None
_is_refresh_revoked_never(rows, jti) == FALSE
_is_refresh_revoked_rotated(rows, jti) ==
    jti \in LedgerJtis(rows) \/ \E r \in rotations : r.of = jti
_is_refresh_revoked_cascade(rows, jti) ==
    \/ jti \in LedgerJtis(rows)
    \/ \E r \in rotations : r.to = jti /\ r.of \in LedgerJtis(rows)
_is_refresh_revoked(rows, jti) == jti \in LedgerJtis(rows)

\* INSERT ... VALUES (:jti, NOW()) ON CONFLICT DO NOTHING: the rows the
\* statement adds to the table as its transaction sees it, and whether the
\* statement raises
_revoke_jti_plain(rows, jti, t) ==
    IF jti \in LedgerJtis(rows)
    THEN [rows |-> {}, raised |-> TRUE]
    ELSE [rows |-> {[jti |-> jti, revoked_at |-> t]}, raised |-> FALSE]
_revoke_jti_upsert(rows, jti, t) ==
    [rows |-> {[jti |-> jti, revoked_at |-> t]}, raised |-> FALSE]
_revoke_jti(rows, jti, t) ==
    IF jti \in LedgerJtis(rows)
    THEN [rows |-> {}, raised |-> FALSE]
    ELSE [rows |-> {[jti |-> jti, revoked_at |-> t]}, raised |-> FALSE]

\* session.commit(): the rows of the transaction become committed rows
Commit(rows, pend) == rows \cup pend

(* --------------------------- error boundary --------------------------- *)
NoHeader == "none"
WwwBearer == "Bearer"
WwwExpired == "Bearer error=invalid_token, error_description=expired"
WwwInvalid == "Bearer error=invalid_token"

Response(status, detail, www) ==
    [status |-> status, detail |-> detail, www |-> www]
NoResponse == Response(0, "", NoHeader)
Ok200 == Response(200, MsgOk, NoHeader)

\* the handlers of init_exception_handlers, run by the ExceptionMiddleware
\* that wraps the router: they see what a route handler raises
exception_handlers(exc) ==
    CASE exc.kind = "InvalidCredentials" ->
            Response(exc.status, exc.detail, WwwBearer)
      [] exc.kind = "TokenExpired" ->
            Response(exc.status, exc.detail, WwwExpired)
      [] exc.kind = "TokenInvalid" ->
            Response(exc.status, exc.detail, WwwInvalid)
      [] exc.kind = "UserAlreadyExistsException" ->
            Response(exc.status, exc.detail, NoHeader)
      [] exc.kind \in {"UserNotFoundException", "ProjectNotFoundException",
                       "IntegrityConflictException"} ->
            Response(exc.status, exc.detail, NoHeader)
      [] exc.kind = "ValidationError" ->
            Response(422, exc.detail, NoHeader)
      [] exc.kind = "IntegrityError" ->
            Response(409, "unique violation", NoHeader)
      [] exc.kind = "DBAPIError" ->
            Response(500, MsgDatabaseError, NoHeader)
      [] OTHER -> Response(500, MsgUnexpected, NoHeader)

\* DBErrorMiddleware.dispatch: what it answers when call_next raises exc.
\* It wraps JWTAuthMiddleware, so it is what sees an exception of the gate.
DBErrorMiddleware_dispatch(exc) ==
    CASE exc.kind \in {"UserNotFoundException", "ProjectNotFoundException"} ->
            Response(404, exc.detail, NoHeader)
      [] exc.kind \in {"UserAlreadyExistsException",
                       "IntegrityConflictException"} ->
            Response(409, exc.detail, NoHeader)
      [] exc.kind = "IntegrityError" ->
            Response(409, "unique violation", NoHeader)
      [] exc.kind = "DBAPIError" ->
            Response(500, MsgDatabaseError, NoHeader)
      [] OTHER -> Response(500, MsgUnexpected, NoHeader)

(* ---------------------------- request gate ---------------------------- *)
\* A URL path is the sequence of the pieces it is written from, so that
\* str.startswith is the prefix relation on sequences.
EXCLUDE_PATHS ==
    {<<"/docs">>, <<"/openapi.json">>, <<"/redoc">>, <<"/health">>,
     <<"/favicon.ico">>, <<"/api/v1/external/posts">>, <<"/api/v1/send-email">>}
EXCLUDE_PREFIXES == {<<"/api/v1/auth">>}

startswith(str, prefix) ==
    /\ Len(prefix) <= Len(str)
    /\ SubSeq(str, 1, Len(prefix)) = prefix

IsExcludedExact(path) == path \in EXCLUDE_PATHS
IsExcluded(path) ==
    \/ path \in EXCLUDE_PATHS
    \/ \E p \in EXCLUDE_PREFIXES : startswith(path, p)

\* the Authorization header: the scheme it starts with and what is left of
\* it once the scheme is removed and the rest stripped
NoAuthorization == [scheme |-> "", cred |-> NoToken]
Bearer(tok) == [scheme |-> "Bearer ", cred |-> tok]
Basic == [scheme |-> "Basic ", cred |-> Garbage]
LowerBearer(tok) == [scheme |-> "bearer ", cred |-> tok]

\* auth_header.startswith('Bearer ')
HasBearerAnyCase(auth) == auth.scheme \in {"Bearer ", "bearer "}
HasBearer(auth) == auth.scheme = "Bearer "

NoRequest == [path |-> <<>>, method |-> "", auth |-> NoAuthorization]

\* JWTAuthMiddleware.dispatch at time t: whether call_next ran, the response
\* it returned itself, the exception it let escape, and request.state.sub
\* (a gate that binds the first user whatever the token says)
Forwarded_first(sub) ==
    [handled |-> TRUE, exc |-> NoExc, resp |-> Ok200,
     sub |-> IF sub = 0 THEN 0 ELSE 1]
Forwarded(sub) ==
    [handled |-> TRUE, exc |-> NoExc, resp |-> Ok200, sub |-> sub]
JWTAuthMiddleware_dispatch(req, t) ==
    IF IsExcluded(req.path) THEN Forwarded(0)
    ELSE IF req.method = "OPTIONS" THEN Forwarded(0)
    ELSE IF ~HasBearer(req.auth)
    THEN [handled |-> FALSE, exc |-> NoExc,
          resp |-> Response(401, MsgNotAuthenticated, NoHeader), sub |-> 0]
    ELSE LET d == decode_access(req.auth.cred, t)
         IN  IF d.exc # NoExc
             THEN [handled |-> FALSE, exc |-> d.exc, resp |-> NoResponse,
                   sub |-> 0]
             ELSE Forwarded(d.payload.sub)

\* the middleware list of main.py: DBErrorMiddleware around JWTAuthMiddleware
\* around the router with its exception handlers
app(req, t) ==
    LET g == JWTAuthMiddleware_dispatch(req, t)
    IN  IF g.exc # NoExc
        THEN [g EXCEPT !.resp = DBErrorMiddleware_dispatch(g.exc)]
        ELSE g

(* ------------------------------- users -------------------------------- *)
\* A string is the sequence of its characters.
casefold(str) ==
    [i \in 1..Len(str) |->
        CASE str[i] = "A" -> "a" [] str[i] = "B" -> "b" [] OTHER -> str[i]]
RECURSIVE lstrip(_)
lstrip(str) ==
    IF str # <<>> /\ Head(str) = " " THEN lstrip(Tail(str)) ELSE str
RECURSIVE rstrip(_)
rstrip(str) ==
    IF str # <<>> /\ str[Len(str)] = " "
    THEN rstrip(SubSeq(str, 1, Len(str) - 1)) ELSE str
strip(str) == rstrip(lstrip(str))
\* func.lower(func.trim(x)) of the queries
func_lower_trim(str) == casefold(strip(str))

\* bcrypt: the hash holds its salt, and checking hashes again with that salt
NoHash == [salt |-> 0, digest |-> <<>>]
gensalt == 1
hash_password(password) ==
    [salt |-> gensalt, digest |-> <<gensalt, password>>]
verify_password(password, hashed) ==
    hashed.digest = <<hashed.salt, password>>

\* a row of the users table; NoUser is None
NoUser == [id |-> 0, username |-> <<>>, email |-> <<>>,
           hashed_password |-> NoHash]

get_raw_by_email_exact(rows, email) ==
    LET m == {u \in rows : u.email = email}
    IN  IF m = {} THEN NoUser ELSE CHOOSE u \in m : TRUE
get_raw_by_email(rows, email) ==
    LET m == {u \in rows : func_lower_trim(u.email) = func_lower_trim(email)}
    IN  IF m = {} THEN NoUser ELSE CHOOSE u \in m : TRUE
get_raw_by_username(rows, username) ==
    LET m == {u \in rows :
                func_lower_trim(u.username) = func_lower_trim(username)}
    IN  IF m = {} THEN NoUser ELSE CHOOSE u \in m : TRUE

\* UserCreate(...): the validators of the schema normalise what was sent
validate_username_value(v) == strip(casefold(v))
UserCreate(username, email, password) ==
    [username |-> validate_username_value(username), email |-> strip(email),
     password |-> password]

\* connector.authenticate_credentials: the user, or NoUser for None
authenticate_credentials(rows, login, password) ==
    LET login_norm == strip(casefold(login))
        user_obj == IF \E i \in 1..Len(login_norm) : login_norm[i] = "@"
                    THEN get_raw_by_email(rows, login_norm)
                    ELSE get_raw_by_username(rows, login_norm)
    IN  IF user_obj = NoUser THEN NoUser
        ELSE IF /\ user_obj.hashed_password # NoHash
                /\ verify_password(password, user_obj.hashed_password)
             THEN user_obj
             ELSE NoUser

\* AuthService.authenticate
authenticate_telling(rows, login, password) ==
    LET user == authenticate_credentials(rows, login, password)
        known == \E pw \in {u.hashed_password.digest[2] : u \in rows} :
                    authenticate_credentials(rows, login, pw) # NoUser
    IN  IF user # NoUser THEN [exc |-> NoExc, user |-> user]
        ELSE IF known
             THEN [exc |-> InvalidCredentials("wrong password"),
                   user |-> NoUser]
             ELSE [exc |-> InvalidCredentials("no such user"),
                   user |-> NoUser]
authenticate(rows, login, password) ==
    LET user == authenticate_credentials(rows, login, password)
    IN  IF user = NoUser
        THEN [exc |-> InvalidCredentials(MsgInvalidCredentials),
              user |-> NoUser]
        ELSE [exc |-> NoExc, user |-> user]

\* UserRepository.create and the flush after it: the INSERT draws the next
\* value of the id sequence, which no rollback gives back, and fails on the
\* UNIQUE constraints of username and email
create(rows, payload, last) ==
    IF \E u \in rows : u.username = payload.username \/ u.email = payload.email
    THEN [exc |-> IntegrityError, rows |-> rows, last |-> last + 1]
    ELSE [exc |-> NoExc,
          rows |-> rows \cup
             {[id |-> last + 1, username |-> payload.username,
               email |-> payload.email,
               hashed_password |-> hash_password(payload.password)]},
          last |-> last + 1]
RECURSIVE create_several(_, _, _)
create_several(rows, payloads, last) ==
    IF payloads = <<>> THEN [exc |-> NoExc, rows |-> rows, last |-> last]
    ELSE LET r == create(rows, Head(payloads), last)
         IN  IF r.exc # NoExc THEN r
             ELSE create_several(r.rows, Tail(payloads), r.last)

\* the checks of UserService.create_user for one payload
conflict(rows, p) ==
    IF get_raw_by_username(rows, p.username) # NoUser
    THEN UserAlreadyExistsException("username")
    ELSE IF get_raw_by_email(rows, p.email) # NoUser
         THEN UserAlreadyExistsException("email")
         ELSE NoExc

\* UserService.create_user: the exception raised, the rows committed and the
\* last id drawn; a session that raised commits nothing
create_user(rows, payload, last) ==
    IF conflict(rows, payload) # NoExc
    THEN [exc |-> conflict(rows, payload), rows |-> rows, last |-> last]
    ELSE LET r == create(rows, payload, last)
         IN  IF r.exc # NoExc THEN [r EXCEPT !.rows = rows] ELSE r

\* UserService.create_users: every payload is checked before any is stored
create_users(rows, payloads, last) ==
    LET bad == {i \in 1..Len(payloads) : conflict(rows, payloads[i]) # NoExc}
    IN  IF bad # {}
        THEN [exc |-> conflict(rows,
                        payloads[CHOOSE i \in bad : \A j \in bad : i <= j]),
              rows |-> rows, last |-> last]
        ELSE LET r == create_several(rows, payloads, last)
             IN  IF r.exc # NoExc THEN [r EXCEPT !.rows = rows] ELSE r

(* ------------------------- users and projects ------------------------- *)
UserNotFoundException ==
    [kind |-> "UserNotFoundException", status |-> 404,
     detail |-> "user not found"]
ProjectNotFoundException ==
    [kind |-> "ProjectNotFoundException", status |-> 404,
     detail |-> "project not found"]
IntegrityConflictException(detail) ==
    [kind |-> "IntegrityConflictException", status |-> 409, detail |-> detail]
ValidationError ==
    [kind |-> "ValidationError", status |-> 422, detail |-> "validation error"]

\* a field an update leaves unset (model_dump(exclude_unset=True) drops it)
Unset == <<"unset">>
\* NULL in projects.person_in_charge; ids start at 1
NoPerson == 0
\* no status filter
NoStatus == ""

\* select(...).where(id == ...).limit(1) and scalar_one_or_none: the row in
\* a set, the empty set for None
get_by_id(rows, id) == {r \in rows : r.id = id}

\* UserService.get_user
get_user(rows, user_id) ==
    IF get_by_id(rows, user_id) = {}
    THEN [exc |-> UserNotFoundException, rows |-> rows]
    ELSE [exc |-> NoExc, rows |-> rows]

UserUpdate(username, email) ==
    [username |-> IF username = Unset THEN Unset
                  ELSE validate_username_value(username),
     email |-> IF email = Unset THEN Unset ELSE strip(email)]

\* UserRepository.update and its flush: the fields that are set are assigned
\* and the row is written under the UNIQUE constraints of the table
update(rows, user_id, payload) ==
    IF get_by_id(rows, user_id) = {}
    THEN [exc |-> NoExc, found |-> FALSE, rows |-> rows]
    ELSE LET obj == CHOOSE u \in get_by_id(rows, user_id) : TRUE
             new == [obj EXCEPT
                       !.username = IF payload.username = Unset THEN @
                                    ELSE payload.username,
                       !.email = IF payload.email = Unset THEN @
                                 ELSE payload.email]
             others == rows \ {obj}
         IN  IF \E u \in others :
                   u.username = new.username \/ u.email = new.email
             THEN [exc |-> IntegrityError, found |-> TRUE, rows |-> rows]
             ELSE [exc |-> NoExc, found |-> TRUE,
                   rows |-> others \cup {new}]

\* UserService.update_user: no lookup by username or email precedes the write
update_user(rows, user_id, payload) ==
    LET r == update(rows, user_id, payload)
    IN  IF r.exc # NoExc THEN [exc |-> r.exc, rows |-> rows]
        ELSE IF ~r.found THEN [exc |-> UserNotFoundException, rows |-> rows]
        ELSE [exc |-> NoExc, rows |-> r.rows]

\* UserRepository.delete
delete(rows, user_id) ==
    IF get_by_id(rows, user_id) = {}
    THEN [found |-> FALSE, rows |-> rows]
    ELSE [found |-> TRUE, rows |-> rows \ get_by_id(rows, user_id)]

\* UserService.delete_user
delete_user(rows, user_id) ==
    LET r == delete(rows, user_id)
    IN  IF ~r.found THEN [exc |-> UserNotFoundException, rows |-> rows]
        ELSE [exc |-> NoExc, rows |-> r.rows]

\* the foreign key of projects.person_in_charge: ON DELETE SET NULL
fk_projects_user(rows, userrows) ==
    {IF p.person_in_charge \in {u.id : u \in userrows} \cup {NoPerson}
     THEN p ELSE [p EXCEPT !.person_in_charge = NoPerson] : p \in rows}

ProjectCreate(name, status, person_in_charge) ==
    [name |-> name, status |-> status, person_in_charge |-> person_in_charge]

\* ProjectRepository._to_schema: ProjectRead declares person_in_charge an
\* int, a row whose person is NULL does not validate
_to_schema(rows) ==
    IF \E p \in rows : p.person_in_charge = NoPerson
    THEN ValidationError ELSE NoExc

exists_by_name(rows, name) == Cardinality({p \in rows : p.name = name}) > 0

\* ProjectService.create_one with ProjectRepository.create_one
create_one(rows, userrows, payload, last) ==
    IF exists_by_name(rows, payload.name)
    THEN [exc |-> IntegrityConflictException("project with this name exists"),
          rows |-> rows, last |-> last]
    ELSE IF get_by_id(userrows, payload.person_in_charge) = {}
    THEN [exc |-> IntegrityConflictException("person in charge not found"),
          rows |-> rows, last |-> last]
    ELSE [exc |-> NoExc,
          rows |-> rows \cup
             {[id |-> last + 1, name |-> payload.name,
               status |-> payload.status,
               person_in_charge |-> payload.person_in_charge]},
          last |-> last + 1]

\* ProjectService.get_one
get_one(rows, project_id) ==
    IF get_by_id(rows, project_id) = {}
    THEN [exc |-> ProjectNotFoundException, rows |-> rows]
    ELSE [exc |-> _to_schema(get_by_id(rows, project_id)), rows |-> rows]

\* a ProjectUpdate that sets the status and nothing else
ProjectUpdate(status) == [status |-> status]

\* ProjectService.update_one with ProjectRepository.update_one
update_one(rows, project_id, payload) ==
    IF get_by_id(rows, project_id) = {}
    THEN [exc |-> ProjectNotFoundException, rows |-> rows]
    ELSE LET obj == CHOOSE p \in get_by_id(rows, project_id) : TRUE
             new == [obj EXCEPT !.status = payload.status]
         IN  IF _to_schema({new}) # NoExc
             THEN [exc |-> _to_schema({new}), rows |-> rows]
             ELSE [exc |-> NoExc, rows |-> (rows \ {obj}) \cup {new}]

\* a delete that answers as if the row had been there
delete_one_idempotent(rows, project_id) ==
    [exc |-> NoExc, rows |-> rows \ get_by_id(rows, project_id)]
\* ProjectService.delete_one with ProjectRepository.delete_one
delete_one(rows, project_id) ==
    IF get_by_id(rows, project_id) = {}
    THEN [exc |-> ProjectNotFoundException, rows |-> rows]
    ELSE IF _to_schema(get_by_id(rows, project_id)) # NoExc
    THEN [exc |-> _to_schema(get_by_id(rows, project_id)), rows |-> rows]
    ELSE [exc |-> NoExc, rows |-> rows \ get_by_id(rows, project_id)]

\* ProjectRepository._apply_filters: a filter is applied when its value is
\* truthy, so None, '' and 0 filter nothing
_apply_filters(rows, status, person_id) ==
    {p \in rows :
        /\ (status # NoStatus => p.status = status)
        /\ (person_id # NoPerson => p.person_in_charge = person_id)}

\* ProjectRepository._apply_order by create_time, which grows with the id
_apply_order(rows, desc) ==
    CHOOSE q \in [1..Cardinality(rows) -> rows] :
        \A i, j \in 1..Cardinality(rows) :
            i < j => IF desc THEN q[i].id > q[j].id ELSE q[i].id < q[j].id

min(a, b) == IF a <= b THEN a ELSE b
max(a, b) == IF a >= b THEN a ELSE b

\* a page query whose OFFSET counts the requested page itself
list_paginated_shifted(rows, page, per_page, status, person_id, desc) ==
    LET pp == min(per_page, PER_PAGE_MAX)
        stmt == _apply_order(_apply_filters(rows, status, person_id), desc)
        offset == max(page, 0) * pp
        items == SubSeq(stmt, offset + 1, min(offset + pp, Len(stmt)))
    IN  [exc |-> _to_schema({items[i] : i \in 1..Len(items)}),
         items |-> items, page |-> page, per_page |-> pp,
         total_count |-> Len(stmt), has_prev |-> page > 1,
         has_next |-> offset + Len(items) < Len(stmt)]
\* ProjectRepository.list_paginated: the ProjectsPage, or the exception of
\* _to_schema on an item of the page
list_paginated(rows, page, per_page, status, person_id, desc) ==
    LET pp == min(per_page, PER_PAGE_MAX)
        stmt == _apply_order(_apply_filters(rows, status, person_id), desc)
        offset == max(page - 1, 0) * pp
        items == SubSeq(stmt, offset + 1, min(offset + pp, Len(stmt)))
        total == Len(stmt)
    IN  [exc |-> _to_schema({items[i] : i \in 1..Len(items)}),
         items |-> items, page |-> page, per_page |-> pp,
         total_count |-> total, has_prev |-> page > 1,
         has_next |-> offset + Len(items) < total]

(* ------------------------------- slots -------------------------------- *)
\* A slot: the operation it runs, where it is in it (pc), the token and
\* request it was given, the outcome of the ledger lookup (found), the rows
\* of its open transaction (pend), what it raised (exc), what the client got
\* (resp, pair), what the gate did (handled, sub).  late remembers whether the
\* token's id was in the committed ledger when the request began.
Idle ==
    [op |-> "none", pc |-> "done", tok |-> NoToken, req |-> NoRequest,
     found |-> FALSE, pend |-> {}, exc |-> NoExc, resp |-> NoResponse,
     pair |-> NoPair, handled |-> FALSE, sub |-> 0, late |-> FALSE,
     login |-> <<>>, password |-> "", batch |-> <<>>, arg |-> <<>>,
     ret |-> <<>>]

Raise(rec, exc) ==
    [rec EXCEPT !.pc = "done", !.exc = exc, !.resp = exception_handlers(exc)]

\* an exception of session.execute inside _is_refresh_revoked: neither it
\* nor refresh catches anything, the request ends with the exception
lookup_failed_as_absent(rec, exc) ==
    [rec EXCEPT !.pc = "rf_resume", !.found = FALSE]
lookup_failed(rec, exc) == Raise(rec, exc)

\* what a client can present: the tokens it was given, re-signed copies of
\* them, and a string that is no token
Presentable == issued \cup {Forge(tok) : tok \in issued} \cup {Garbage}

\* A finished slot shows its outcome in the state its last step leads to; the
\* next step of the system finds it free again.
Free == [s \in Slots |-> IF slot[s].pc = "done" THEN Idle ELSE slot[s]]

Init ==
    /\ now = Epoch
    /\ ledger = {}
    /\ issued = {}
    /\ ctr = 0
    /\ slot = [s \in Slots |-> Idle]
    /\ rotations = {}
    /\ users = {}
    /\ projects = {}
    /\ seq = [users |-> 0, projects |-> 0]

(* ------------------------------ actions ------------------------------- *)
\* POST /auth/login for a user whose credentials verify: issue_tokens
Login(s, uid, cap) ==
    /\ slot[s].pc = "done"
    /\ ctr + 2 <= 2 * cap
    /\ LET pair == issue_tokens(uid, now, ctr)
       IN  /\ issued' = issued \cup {pair.access_token, pair.refresh_token}
           /\ slot' = [Free EXCEPT ![s] =
                  [Idle EXCEPT !.op = "login", !.pair = pair, !.resp = Ok200]]
    /\ ctr' = ctr + 2
    /\ UNCHANGED <<now, ledger, rotations, users, projects, seq>>

\* POST /auth/login in a process started with the settings cfg
LoginUnder(s, cfg, uid, cap) ==
    /\ slot[s].pc = "done"
    /\ ctr + 2 <= 2 * cap
    /\ LET pair == issue_tokens_under(cfg, uid, now, ctr)
       IN  /\ issued' = issued \cup {pair.access_token, pair.refresh_token}
           /\ slot' = [Free EXCEPT ![s] =
                  [Idle EXCEPT !.op = "login", !.arg = <<cfg>>,
                               !.pair = pair, !.resp = Ok200]]
    /\ ctr' = ctr + 2
    /\ UNCHANGED <<now, ledger, rotations, users, projects, seq>>

\* AuthService.refresh up to its await
RefreshStart(s, tok) ==
    /\ slot[s].pc = "done"
    /\ LET d == refresh_decode(tok, now)
           rec == [Idle EXCEPT !.op = "refresh", !.tok = tok,
                               !.late = tok.jti \in LedgerJtis(ledger)]
       IN  slot' = [Free EXCEPT ![s] =
             IF d.exc # NoExc THEN Raise(rec, d.exc)
             ELSE [rec EXCEPT !.pc = "rf_select"]]
    /\ UNCHANGED <<now, ledger, issued, ctr, rotations, users, projects, seq>>

\* the SELECT of _is_refresh_revoked reads the committed rows
RefreshSelect(s) ==
    /\ slot[s].pc = "rf_select"
    /\ slot' = [Free EXCEPT ![s].pc = "rf_resume",
                            ![s].found = _is_refresh_revoked(ledger, slot[s].tok.jti)]
    /\ UNCHANGED <<now, ledger, issued, ctr, rotations, users, projects, seq>>

\* the SELECT of _is_refresh_revoked fails: the database is unavailable
RefreshSelectFails(s, exc) ==
    /\ slot[s].pc = "rf_select"
    /\ slot' = [Free EXCEPT ![s] = lookup_failed(slot[s], exc)]
    /\ UNCHANGED <<now, ledger, issued, ctr, rotations, users, projects, seq>>

\* AuthService.refresh after its await
\* (hist: whether the step is written down in rotations)
RefreshResume(s, cap, hist) ==
    /\ slot[s].pc = "rf_resume"
    /\ IF slot[s].found
       THEN /\ slot' = [Free EXCEPT ![s] =
                   Raise(slot[s], TokenInvalid(MsgRefreshRevoked))]
            /\ UNCHANGED <<issued, ctr, rotations>>
       ELSE /\ ctr + 2 <= 2 * cap
            /\ LET pair == refresh_mint(slot[s].tok.sub, now, ctr)
               IN  /\ issued' = issued \cup {pair.access_token, pair.refresh_token}
                   /\ slot' = [Free EXCEPT ![s].pc = "done", ![s].pair = pair,
                                           ![s].resp = Ok200]
                   /\ rotations' =
                         IF hist
                         THEN rotations \cup {[of |-> slot[s].tok.jti,
                                               to |-> pair.refresh_token.jti]}
                         ELSE rotations
            /\ ctr' = ctr + 2
    /\ UNCHANGED <<now, ledger, users, projects, seq>>

\* AuthService.revoke_refresh_token up to its first await
RevokeStart(s, tok) ==
    /\ slot[s].pc = "done"
    /\ LET d == revoke_decode(tok, now)
           rec == [Idle EXCEPT !.op = "revoke", !.tok = tok,
                               !.late = tok.jti \in LedgerJtis(ledger)]
       IN  slot' = [Free EXCEPT ![s] =
             IF d.exc # NoExc THEN Raise(rec, d.exc)
             ELSE IF d.payload.jti = 0
                  THEN [rec EXCEPT !.resp = Ok200]
             ELSE [rec EXCEPT !.pc = "rv_insert"]]
    /\ UNCHANGED <<now, ledger, issued, ctr, rotations, users, projects, seq>>

\* the INSERT of _revoke_jti, in the session's transaction.  The statement
\* waits while another open transaction holds a row with the same key.
RevokeInsert(s) ==
    /\ slot[s].pc = "rv_insert"
    /\ \A o \in Slots \ {s} : slot[s].tok.jti \notin LedgerJtis(slot[o].pend)
    /\ LET r == _revoke_jti(ledger, slot[s].tok.jti, now)
       IN  slot' = [Free EXCEPT ![s] =
             IF r.raised
             THEN Raise(slot[s], [kind |-> "IntegrityError", status |-> 409,
                                  detail |-> "unique violation"])
             ELSE [slot[s] EXCEPT !.pc = "rv_commit", !.pend = r.rows,
                                  !.found = (r.rows = {})]]
    /\ UNCHANGED <<now, ledger, issued, ctr, rotations, users, projects, seq>>

\* the INSERT of _revoke_jti fails: the database is unavailable.  Nothing
\* catches the exception; the session closes and its transaction, which
\* wrote nothing, is rolled back
RevokeInsertFails(s, exc) ==
    /\ slot[s].pc = "rv_insert"
    /\ slot' = [Free EXCEPT ![s] = Raise([slot[s] EXCEPT !.pend = {}], exc)]
    /\ UNCHANGED <<now, ledger, issued, ctr, rotations, users, projects, seq>>

\* session.commit()
RevokeCommit(s) ==
    /\ slot[s].pc = "rv_commit"
    /\ ledger' = Commit(ledger, slot[s].pend)
    /\ slot' = [Free EXCEPT ![s].pc = "done", ![s].pend = {}, ![s].resp = Ok200]
    /\ UNCHANGED <<now, issued, ctr, rotations, users, projects, seq>>

\* a gate that looks into the ledger: it refuses an access token once the
\* refresh token minted with it is revoked
Gate_revocable(s, req) ==
    /\ slot[s].pc = "done"
    /\ LET g == app(req, now)
           revoked == req.auth.cred.jti + 1 \in LedgerJtis(ledger)
       IN  slot' = [Free EXCEPT ![s] =
             [Idle EXCEPT !.op = "gate", !.req = req, !.tok = req.auth.cred,
                          !.handled = g.handled /\ ~revoked,
                          !.exc = IF revoked THEN TokenInvalid(MsgTokenInvalid)
                                  ELSE g.exc,
                          !.resp = g.resp, !.sub = g.sub]]
    /\ UNCHANGED <<now, ledger, issued, ctr, rotations, users, projects, seq>>

\* any request that is not one of the above, through the middleware stack
Gate(s, req) ==
    /\ slot[s].pc = "done"
    /\ LET g == app(req, now)
       IN  slot' = [Free EXCEPT ![s] =
             [Idle EXCEPT !.op = "gate", !.req = req, !.tok = req.auth.cred,
                          !.handled = g.handled, !.exc = g.exc,
                          !.resp = g.resp, !.sub = g.sub]]
    /\ UNCHANGED <<now, ledger, issued, ctr, rotations, users, projects, seq>>

\* AuthService.authenticate
Authenticate(s, login, password) ==
    /\ slot[s].pc = "done"
    /\ LET a == authenticate(users, login, password)
           rec == [Idle EXCEPT !.op = "authenticate", !.login = login,
                               !.password = password]
       IN  slot' = [Free EXCEPT ![s] =
             IF a.exc # NoExc THEN Raise(rec, a.exc)
             ELSE [rec EXCEPT !.sub = a.user.id, !.resp = Ok200]]
    /\ UNCHANGED <<now, ledger, issued, ctr, rotations, users, projects, seq>>

\* UserService.create_user
CreateUser(s, payload) ==
    /\ slot[s].pc = "done"
    /\ LET r == create_user(users, payload, seq.users)
           rec == [Idle EXCEPT !.op = "create_user", !.batch = <<payload>>]
       IN  /\ r.last <= NumUsers
           /\ users' = r.rows
           /\ seq' = [seq EXCEPT !.users = r.last]
           /\ slot' = [Free EXCEPT ![s] =
                 IF r.exc # NoExc THEN Raise(rec, r.exc)
                 ELSE [rec EXCEPT !.resp = Ok200]]
    /\ UNCHANGED <<now, ledger, issued, ctr, rotations, projects>>

\* UserService.create_users
CreateUsers(s, payloads) ==
    /\ slot[s].pc = "done"
    /\ LET r == create_users(users, payloads, seq.users)
           rec == [Idle EXCEPT !.op = "create_users", !.batch = payloads]
       IN  /\ r.last <= NumUsers
           /\ users' = r.rows
           /\ seq' = [seq EXCEPT !.users = r.last]
           /\ slot' = [Free EXCEPT ![s] =
                 IF r.exc # NoExc THEN Raise(rec, r.exc)
                 ELSE [rec EXCEPT !.resp = Ok200]]
    /\ UNCHANGED <<now, ledger, issued, ctr, rotations, projects>>

\* a finished call of a service of users or projects
Called(op, arg, exc, ret) ==
    LET rec == [Idle EXCEPT !.op = op, !.arg = arg, !.ret = ret]
    IN  IF exc # NoExc THEN Raise(rec, exc) ELSE [rec EXCEPT !.resp = Ok200]

\* UserService.get_user
GetUser(s, user_id) ==
    /\ slot[s].pc = "done"
    /\ slot' = [Free EXCEPT ![s] =
          Called("get_user", <<user_id>>, get_user(users, user_id).exc, <<>>)]
    /\ UNCHANGED <<now, ledger, issued, ctr, rotations, users, projects, seq>>

\* UserService.update_user
UpdateUser(s, user_id, payload) ==
    /\ slot[s].pc = "done"
    /\ LET r == update_user(users, user_id, payload)
       IN  /\ users' = r.rows
           /\ slot' = [Free EXCEPT ![s] =
                 Called("update_user", <<user_id, payload>>, r.exc, <<>>)]
    /\ UNCHANGED <<now, ledger, issued, ctr, rotations, projects, seq>>

\* UserService.delete_user; the DELETE sets the person of the user's
\* projects to NULL
DeleteUser(s, user_id) ==
    /\ slot[s].pc = "done"
    /\ LET r == delete_user(users, user_id)
       IN  /\ users' = r.rows
           /\ projects' = fk_projects_user(projects, r.rows)
           /\ slot' = [Free EXCEPT ![s] =
                 Called("delete_user", <<user_id>>, r.exc, <<>>)]
    /\ UNCHANGED <<now, ledger, issued, ctr, rotations, seq>>

\* ProjectService.create_one
CreateOne(s, payload) ==
    /\ slot[s].pc = "done"
    /\ LET r == create_one(projects, users, payload, seq.projects)
       IN  /\ r.last <= MaxProjects
           /\ projects' = r.rows
           /\ seq' = [seq EXCEPT !.projects = r.last]
           /\ slot' = [Free EXCEPT ![s] =
                 Called("create_one", <<payload>>, r.exc, <<>>)]
    /\ UNCHANGED <<now, ledger, issued, ctr, rotations, users>>

\* ProjectService.get_one
GetOne(s, project_id) ==
    /\ slot[s].pc = "done"
    /\ slot' = [Free EXCEPT ![s] =
          Called("get_one", <<project_id>>,
                 get_one(projects, project_id).exc, <<>>)]
    /\ UNCHANGED <<now, ledger, issued, ctr, rotations, users, projects, seq>>

\* ProjectService.update_one
UpdateOne(s, project_id, payload) ==
    /\ slot[s].pc = "done"
    /\ LET r == update_one(projects, project_id, payload)
       IN  /\ projects' = r.rows
           /\ slot' = [Free EXCEPT ![s] =
                 Called("update_one", <<project_id, payload>>, r.exc, <<>>)]
    /\ UNCHANGED <<now, ledger, issued, ctr, rotations, users, seq>>

\* ProjectService.delete_one
DeleteOne(s, project_id) ==
    /\ slot[s].pc = "done"
    /\ LET r == delete_one(projects, project_id)
       IN  /\ projects' = r.rows
           /\ slot' = [Free EXCEPT ![s] =
                 Called("delete_one", <<project_id>>, r.exc, <<>>)]
    /\ UNCHANGED <<now, ledger, issued, ctr, rotations, users, seq>>

\* ProjectService.list_projects, which hands its arguments to list_paginated
ListProjects(s, page, per_page, status, person_id, desc) ==
    /\ slot[s].pc = "done"
    /\ LET r == list_paginated(projects, page, per_page, status, person_id,
                               desc)
       IN  slot' = [Free EXCEPT ![s] =
              Called("list_projects",
                     <<page, per_page, status, person_id, desc>>, r.exc,
                     IF r.exc # NoExc THEN <<>> ELSE <<r>>)]
    /\ UNCHANGED <<now, ledger, issued, ctr, rotations, users, projects, seq>>

\* a call of AuthService._decode_token
Decode(s, tok) ==
    /\ slot[s].pc = "done"
    /\ LET d == _decode_token(tok, now)
       IN  slot' = [Free EXCEPT ![s] =
             [Idle EXCEPT !.op = "decode", !.tok = tok, !.exc = d.exc,
                          !.sub = d.payload.sub]]
    /\ UNCHANGED <<now, ledger, issued, ctr, rotations, users, projects, seq>>

Tick(t) ==
    /\ t > now
    /\ now' = t
    /\ slot' = Free
    /\ UNCHANGED <<ledger, issued, ctr, rotations, users, projects, seq>>

\* the process dies and starts again: requests in flight and their open
\* transactions are gone, the committed ledger is not
Restart ==
    /\ \E s \in Slots : slot[s].pc # "done"
    /\ slot' = [s \in Slots |-> Idle]
    /\ UNCHANGED <<now, ledger, issued, ctr, rotations, users, projects, seq>>

RequestLines ==
    {[path |-> <<"/api/v1/users">>, method |-> "GET"],
     [path |-> <<"/api/v1/users">>, method |-> "OPTIONS"],
     [path |-> <<"/health">>, method |-> "GET"],
     [path |-> <<"/api/v1/auth", "/logout">>, method |-> "GET"]}
Authorizations ==
    {NoAuthorization, Basic} \cup {Bearer(tok) : tok \in Presentable}
        \cup {LowerBearer(tok) : tok \in issued}
Requests ==
    {[path |-> l.path, method |-> l.method, auth |-> a] :
        l \in RequestLines, a \in Authorizations}

\* one request at a time, with every credential a client can make up
First == {1}
NextSeq ==
    \/ \E s \in First, uid \in Users : Login(s, uid, SeqPairs)
    \/ \E s \in First, tok \in Presentable : RefreshStart(s, tok)
    \/ \E s \in First : RefreshSelect(s)
    \/ \E s \in First : RefreshResume(s, SeqPairs, FALSE)
    \/ \E s \in First, tok \in Presentable : RevokeStart(s, tok)
    \/ \E s \in First : RevokeInsert(s)
    \/ \E s \in First : RevokeCommit(s)
    \/ \E t \in Instants : Tick(t)

SpecSeq == Init /\ [][NextSeq]_vars

\* the requests that are answered by the middleware stack or a plain handler
NextGate ==
    \/ \E s \in First, uid \in Users : Login(s, uid, SeqPairs)
    \/ \E s \in First, req \in Requests : Gate(s, req)
    \/ \E t \in Instants : Tick(t)

SpecGate == Init /\ [][NextGate]_vars

\* the users table and the credentials check, one call at a time
RawNames == {<<"a">>, <<"A">>, <<" ", "a">>, <<"b">>}
RawEmails == {<<"a", "@">>, <<"A", "@">>, <<"b", "@">>, <<"b", "@", " ">>}
Passwords == {"pw1", "pw2"}
Payloads ==
    {UserCreate(n, e, "pw1") : n \in RawNames, e \in RawEmails}
Batches == {<<p>> : p \in Payloads} \cup {<<p, q>> : p, q \in Payloads}
NextUsers ==
    \/ \E s \in First, p \in Payloads : CreateUser(s, p)
    \/ \E s \in First, b \in Batches : CreateUsers(s, b)
    \/ \E s \in First, l \in RawNames \cup RawEmails, pw \in Passwords :
          Authenticate(s, l, pw)

SpecUsers == Init /\ [][NextUsers]_vars

\* ---- pages of projects: creation and listing, one request at a time ----
Owners == {UserCreate(<<"a">>, <<"a", "@">>, "pw1"),
           UserCreate(<<"b">>, <<"b", "@">>, "pw1")}
ProjectPayloads ==
    {ProjectCreate("p1", "new", 1), ProjectCreate("p2", "in_progress", 1),
     ProjectCreate("p3", "new", 2), ProjectCreate("p1", "new", 2)}
NextPages ==
    \/ \E s \in First, p \in Owners : CreateUser(s, p)
    \/ \E s \in First, p \in ProjectPayloads : CreateOne(s, p)
    \* page numbers below, at and above the first page; page sizes up to one
    \* more than the cap; no filter, a status, a person
    \/ \E s \in First, page \in 0..3, per_page \in 1..(PER_PAGE_MAX + 1),
          f \in {<<NoStatus, NoPerson>>, <<"new", NoPerson>>, <<NoStatus, 1>>},
          desc \in BOOLEAN : ListProjects(s, page, per_page, f[1], f[2], desc)

SpecPages == Init /\ [][NextPages]_vars

\* ---- the stores of users and projects, one request at a time ----
UserIds == 1..(NumUsers + 1)
ProjectIds == 1..(MaxProjects + 1)
NextStore ==
    \/ \E s \in First, p \in Owners : CreateUser(s, p)
    \/ \E s \in First, u \in UserIds : GetUser(s, u)
    \/ \E s \in First, u \in UserIds,
          p \in {UserUpdate(<<"B">>, Unset), UserUpdate(Unset, <<"A", "@">>)} :
          UpdateUser(s, u, p)
    \/ \E s \in First, u \in UserIds : DeleteUser(s, u)
    \/ \E s \in First, u \in Users : CreateOne(s, ProjectCreate("p1", "new", u))
    \/ \E s \in First, i \in ProjectIds : GetOne(s, i)
    \/ \E s \in First, i \in ProjectIds :
          UpdateOne(s, i, ProjectUpdate("in_progress"))
    \/ \E s \in First, i \in ProjectIds : DeleteOne(s, i)

SpecStore == Init /\ [][NextStore]_vars

\* ---- the accounts: every operation that writes users, and the login ----
AccountPayloads ==
    {UserCreate(<<"a">>, <<"a", "@">>, "pw1"),
     UserCreate(<<"b">>, <<"b", "@">>, "pw1"),
     UserCreate(<<"A">>, <<"A", "@">>, "pw1")}
AccountUpdates ==
    {UserUpdate(<<"A">>, Unset), UserUpdate(<<"b">>, Unset),
     UserUpdate(Unset, <<"A", "@">>), UserUpdate(Unset, <<"a", "@">>)}
NextAccounts ==
    \/ \E s \in First, p \in AccountPayloads : CreateUser(s, p)
    \/ \E s \in First, p, q \in AccountPayloads : CreateUsers(s, <<p, q>>)
    \/ \E s \in First, u \in UserIds, p \in AccountUpdates :
          UpdateUser(s, u, p)
    \/ \E s \in First, u \in UserIds : DeleteUser(s, u)
    \/ \E s \in First, l \in {<<"a">>, <<"A", "@">>} :
          Authenticate(s, l, "pw1")

SpecAccounts == Init /\ [][NextAccounts]_vars

\* ---- logins of processes started with the shipped settings and with
\* ---- durations of zero, and the decoding of what they signed ----
NextConfig ==
    \/ \E s \in First, uid \in Users,
          cfg \in {Settings(ACCESS_TTL_MIN, REFRESH_TTL_DAYS),
                   Settings(0, REFRESH_TTL_DAYS), Settings(ACCESS_TTL_MIN, 0)} :
          LoginUnder(s, cfg, uid, SeqPairs)
    \/ \E s \in First, tok \in issued : Decode(s, tok)
    \/ \E t \in Instants : Tick(t)

SpecConfig == Init /\ [][NextConfig]_vars

\* the codec on its own, with the clock read one second before and at an
\* expiry
CodecInstants ==
    {Epoch, Epoch + AccessTtl - 1, Epoch + AccessTtl, Epoch + RefreshTtl}
CodecInputs == Presentable \cup {Unsigned(tok) : tok \in issued}
NextCodec ==
    \/ \E s \in First, uid \in Users : Login(s, uid, SeqPairs)
    \/ \E s \in First, tok \in CodecInputs : Decode(s, tok)
    \/ \E t \in CodecInstants : Tick(t)

SpecCodec == Init /\ [][NextCodec]_vars

\* one request at a time, presenting the refresh tokens the service issued;
\* rotations records where each rotated pair came from
RefreshTokens == {tok \in issued : tok.type = "refresh"}
NextRot ==
    \/ \E s \in First : Login(s, 1, MaxPairs)
    \/ \E s \in First, tok \in RefreshTokens : RefreshStart(s, tok)
    \/ \E s \in First : RefreshSelect(s)
    \/ \E s \in First : RefreshResume(s, MaxPairs, TRUE)
    \/ \E s \in First, tok \in RefreshTokens : RevokeStart(s, tok)
    \/ \E s \in First : RevokeInsert(s)
    \/ \E s \in First : RevokeCommit(s)
    \/ Tick(Epoch + RefreshTtl)

SpecRot == Init /\ [][NextRot]_vars

\* login, refresh, logout and requests through the gate, one at a time, over
\* the life of the tokens, with a database that can fail a lookup
GateProbes ==
    {[path |-> <<"/api/v1/users">>, method |-> "GET", auth |-> Bearer(tok)] :
        tok \in issued}
NextLedger ==
    \/ \E s \in First : Login(s, 1, SeqPairs)
    \/ \E s \in First, tok \in RefreshTokens : RefreshStart(s, tok)
    \/ \E s \in First : RefreshSelect(s)
    \/ \E s \in First : RefreshResume(s, SeqPairs, FALSE)
    \/ \E s \in First, tok \in RefreshTokens : RevokeStart(s, tok)
    \/ \E s \in First : RevokeInsert(s)
    \/ \E s \in First : RevokeCommit(s)
    \/ \E s \in First, req \in GateProbes : Gate(s, req)
    \/ \E s \in First, exc \in StorageFailures : RefreshSelectFails(s, exc)
    \/ \E t \in Instants : Tick(t)

SpecLedger == Init /\ [][NextLedger]_vars

\* ---- logout with every kind of token, a database that can fail the
\* ---- insert, and requests through the gate with the tokens issued ----
NextRevoke ==
    \/ \E s \in First : Login(s, 1, SeqPairs)
    \/ \E s \in First, tok \in Presentable : RevokeStart(s, tok)
    \/ \E s \in First : RevokeInsert(s)
    \/ \E s \in First, exc \in StorageFailures : RevokeInsertFails(s, exc)
    \/ \E s \in First : RevokeCommit(s)
    \/ \E s \in First, req \in GateProbes : Gate(s, req)
    \/ \E t \in Instants : Tick(t)

SpecRevoke == Init /\ [][NextRevoke]_vars

\* requests in flight together, presenting the refresh tokens the service
\* issued
Next ==
    \/ \E s \in Slots : Login(s, 1, MaxPairs)
    \/ \E s \in Slots, tok \in RefreshTokens : RefreshStart(s, tok)
    \/ \E s \in Slots : RefreshSelect(s)
    \/ \E s \in Slots : RefreshResume(s, MaxPairs, FALSE)
    \/ \E s \in Slots, tok \in RefreshTokens : RevokeStart(s, tok)
    \/ \E s \in Slots : RevokeInsert(s)
    \/ \E s \in Slots : RevokeCommit(s)
    \/ Tick(Epoch + RefreshTtl)
    \/ Restart

Spec == Init /\ [][Next]_vars
(* ------------------------------ claims -------------------------------- *)
RefreshDone(s) == slot[s].op = "refresh" /\ slot[s].pc = "done"
RevokeDone(s) == slot[s].op = "revoke" /\ slot[s].pc = "done"
\* a request the gate has to verify
Verified(s) ==
    /\ slot[s].op = "gate"
    /\ ~IsExcluded(slot[s].req.path)
    /\ slot[s].req.method # "OPTIONS"
\* the token is signed by the service and well formed
Genuine(tok) ==
    tok.form = "jwt" /\ tok.key = SECRET_KEY /\ tok.alg = ALGORITHM

\* C1, as claimed: a refresh that begins once the revocation of its token is
\* committed fails with TokenInvalid and issues no pair.
C1_AsClaimed ==
    \A s \in Slots : RefreshDone(s) /\ slot[s].late =>
        slot[s].exc.kind = "TokenInvalid" /\ slot[s].pair = NoPair

\* C1, as amended: a refresh that begins once the revocation of its token is
\* committed issues no pair and is answered 401: with TokenInvalid (revoked)
\* while the token is unexpired, with TokenExpired once now >= exp.
C1_RevocationEnforced ==
    \A s \in Slots : RefreshDone(s) /\ slot[s].late =>
        /\ slot[s].pair = NoPair
        /\ slot[s].resp.status = 401
        /\ slot[s].exc.kind \in {"TokenInvalid", "TokenExpired"}
        /\ slot[s].tok.exp > now => slot[s].exc = TokenInvalid(MsgRefreshRevoked)
        /\ slot[s].exc.kind = "TokenExpired" => slot[s].tok.exp <= now

C1_Witness ==
    \E s \in Slots :
        /\ RefreshDone(s) /\ slot[s].late
        /\ slot[s].exc = TokenInvalid(MsgRefreshRevoked)

\* C2: the gate lets a request it has to verify through to the handler only
\* with a Bearer token that is well formed, signed with the service's key,
\* unexpired (now < exp) and of type access; when the decode raises, the
\* handler does not run.
C2_HardGate ==
    \A s \in Slots : Verified(s) =>
        /\ slot[s].handled =>
              /\ slot[s].req.auth.scheme = "Bearer "
              /\ Genuine(slot[s].req.auth.cred)
              /\ now < slot[s].req.auth.cred.exp
              /\ slot[s].req.auth.cred.type = "access"
        /\ slot[s].exc # NoExc => ~slot[s].handled

C2_Witness ==
    \E s \in Slots :
        /\ Verified(s) /\ slot[s].handled
        /\ slot[s].req.auth.cred \in issued

C3_State ==
    \A s \in Slots : slot[s].op = "revoke" /\ slot[s].late =>
        /\ slot[s].pend = {}
        /\ slot[s].tok.jti \in LedgerJtis(ledger)
        /\ slot[s].pc = "done" =>
              /\ slot[s].exc.kind \in {"none", "TokenExpired"}
              /\ slot[s].tok.exp > now =>
                    slot[s].exc = NoExc /\ slot[s].resp = Ok200
C3_Step == \A r \in ledger : r \in ledger'

\* C3: a revocation of a token whose id is already in the ledger raises
\* nothing while the token still decodes, adds no row and changes none; a
\* row of the ledger stays as it is through every later step.
C3_RevocationIdempotent == []C3_State /\ [][C3_Step]_vars

C3_Witness ==
    \E s \in Slots :
        /\ RevokeDone(s) /\ slot[s].late
        /\ slot[s].exc = NoExc /\ slot[s].resp = Ok200

C4_State ==
    \A s \in Slots : RefreshDone(s) =>
        /\ slot[s].exc = NoExc =>
              slot[s].pair # NoPair /\ slot[s].tok.jti \notin LedgerJtis(ledger)
        /\ (/\ slot[s].tok.exp > now
            /\ slot[s].tok.jti \notin LedgerJtis(ledger)) => slot[s].exc = NoExc
C4_Step ==
    ledger' # ledger =>
        \E s \in Slots :
            /\ slot[s].op = "revoke" /\ slot[s].pc = "rv_commit"
            /\ slot'[s].pc = "done"
            /\ ledger' = ledger \cup slot[s].pend

\* C4: a successful refresh leaves the id of its token out of the ledger; a
\* refresh of an unexpired refresh token whose id is not in the ledger
\* succeeds, however often the token was rotated before; only the commit of
\* revoke_refresh_token changes the ledger.
C4_NoRotationRevocation == []C4_State /\ [][C4_Step]_vars

C4_Witness ==
    \E s \in Slots :
        /\ RefreshDone(s) /\ slot[s].exc = NoExc
        /\ Cardinality({r \in rotations : r.of = slot[s].tok.jti}) >= 2

\* C5: refresh calls in flight together on one token do not fail because of
\* each other: a refresh answers "revoked" exactly when its own lookup found
\* the id, and then the id is in the ledger; a refresh whose lookup found
\* nothing returns a pair; all tokens ever minted have distinct ids.
C5_ConcurrentRefresh ==
    /\ \A t1, t2 \in issued : t1.jti = t2.jti => t1 = t2
    /\ \A s \in Slots : RefreshDone(s) =>
          /\ slot[s].found <=> slot[s].exc = TokenInvalid(MsgRefreshRevoked)
          /\ slot[s].found => slot[s].tok.jti \in LedgerJtis(ledger)
          /\ (slot[s].exc = NoExc) <=> (slot[s].pair # NoPair)
          /\ slot[s].exc = NoExc =>
                /\ {slot[s].pair.access_token, slot[s].pair.refresh_token}
                      \subseteq issued
                /\ slot[s].pair.access_token.jti # slot[s].pair.refresh_token.jti

C5_Witness ==
    \E s, o \in Slots :
        /\ s # o
        /\ RefreshDone(s) /\ slot[s].exc = NoExc
        /\ slot[o].op = "refresh" /\ slot[o].pc = "rf_resume"
        /\ ~slot[o].found
        /\ slot[o].tok = slot[s].tok

\* C6: revocations in flight together on one token all end without an
\* error, and the ledger holds one row for an id.
C6_ConcurrentRevoke ==
    /\ \A r1, r2 \in ledger : r1.jti = r2.jti => r1 = r2
    /\ \A s \in Slots : RevokeDone(s) =>
          /\ slot[s].exc.kind \in {"none", "TokenExpired"}
          /\ slot[s].tok.exp > now => slot[s].exc = NoExc
          /\ slot[s].exc = NoExc =>
                /\ slot[s].resp = Ok200
                /\ slot[s].tok.jti \in LedgerJtis(ledger)

\* the insert of a revocation that began before any commit found the row:
\* another revocation of the token committed in between
C6_Witness ==
    \E s \in Slots :
        /\ RevokeDone(s) /\ slot[s].exc = NoExc
        /\ ~slot[s].late /\ slot[s].found

\* C7, as claimed: an access token given to refresh is refused with
\* TokenInvalid, whatever else is true of it, and no pair is issued.
C7_AsClaimed ==
    \A s \in Slots : RefreshDone(s) /\ slot[s].tok.type = "access" =>
        slot[s].exc.kind = "TokenInvalid" /\ slot[s].pair = NoPair

\* C7, as amended: an access token given to refresh is refused (401) and no
\* pair is issued; the error is TokenInvalid, except for a validly signed
\* access token past its expiry, which fails at decode with TokenExpired.
C7_AccessTokenRefused ==
    \A s \in Slots : RefreshDone(s) /\ slot[s].tok.type = "access" =>
        /\ slot[s].pair = NoPair
        /\ slot[s].resp.status = 401
        /\ slot[s].exc.kind \in {"TokenInvalid", "TokenExpired"}
        /\ slot[s].exc.kind = "TokenExpired" <=>
              (Genuine(slot[s].tok) /\ slot[s].tok.exp <= now)
        /\ (Genuine(slot[s].tok) /\ slot[s].tok.exp > now) =>
              slot[s].exc = TokenInvalid(MsgExpectedRefresh)

C7_Witness ==
    \E s \in Slots :
        /\ RefreshDone(s) /\ slot[s].tok.type = "access"
        /\ Genuine(slot[s].tok) /\ slot[s].tok.exp > now
        /\ slot[s].exc = TokenInvalid(MsgExpectedRefresh)

\* C8, as claimed: a refresh token as the bearer credential of a request
\* the gate has to verify is refused with TokenInvalid, whatever else is true
\* of it, and the handler does not run.
C8_AsClaimed ==
    \A s \in Slots :
        (/\ Verified(s)
         /\ slot[s].req.auth.scheme = "Bearer "
         /\ slot[s].req.auth.cred.type = "refresh") =>
            slot[s].exc.kind = "TokenInvalid" /\ ~slot[s].handled

\* C8, as amended: a refresh token as the bearer credential of a request the
\* gate has to verify never reaches the handler; the gate's verification
\* raises TokenInvalid, except for a validly signed refresh token past its
\* expiry, for which it raises TokenExpired.
C8_RefreshTokenRefused ==
    \A s \in Slots :
        (/\ Verified(s)
         /\ slot[s].req.auth.scheme = "Bearer "
         /\ slot[s].req.auth.cred.type = "refresh") =>
            /\ ~slot[s].handled
            /\ slot[s].exc.kind \in {"TokenInvalid", "TokenExpired"}
            /\ slot[s].exc.kind = "TokenExpired" <=>
                  (Genuine(slot[s].tok) /\ slot[s].tok.exp <= now)
            /\ (Genuine(slot[s].tok) /\ slot[s].tok.exp > now) =>
                  slot[s].exc = TokenInvalid(MsgExpectedAccess)

C8_Witness ==
    \E s \in Slots :
        /\ Verified(s) /\ slot[s].req.auth.scheme = "Bearer "
        /\ slot[s].tok.type = "refresh"
        /\ Genuine(slot[s].tok) /\ slot[s].tok.exp > now
        /\ slot[s].exc = TokenInvalid(MsgExpectedAccess) /\ ~slot[s].handled

\* C9: what the gate's verification raises reaches the client as raised: an
\* expired token is answered 401 with the TokenExpired message, an invalid
\* one 401 with the TokenInvalid message.
C9_GateErrorsMapped ==
    \A s \in Slots : Verified(s) /\ slot[s].exc # NoExc =>
        /\ slot[s].resp.status = slot[s].exc.status
        /\ slot[s].resp.detail = slot[s].exc.detail
        /\ slot[s].exc.kind = "TokenExpired" =>
              slot[s].resp = Response(401, MsgTokenExpired, slot[s].resp.www)

\* C10: every refusal of the gate carries a WWW-Authenticate hint, and the
\* hint tells no credentials, expired and invalid apart.
C10_GateHints ==
    \A s \in Slots : Verified(s) /\ ~slot[s].handled =>
        /\ slot[s].resp.www # NoHeader
        /\ slot[s].exc.kind = "TokenExpired" => slot[s].resp.www = WwwExpired
        /\ slot[s].exc.kind = "TokenInvalid" => slot[s].resp.www = WwwInvalid
        /\ slot[s].exc = NoExc => slot[s].resp.www \notin {WwwExpired, WwwInvalid}

\* C11: a request the gate has to verify whose Authorization header is
\* absent or does not start with 'Bearer ' is answered 401 'Not
\* authenticated' by the gate itself: nothing is decoded (no decode error,
\* no subject, whatever follows the scheme) and the handler does not run.
C11_NoCredentials ==
    \A s \in Slots : Verified(s) /\ slot[s].req.auth.scheme # "Bearer " =>
        /\ ~slot[s].handled
        /\ slot[s].exc = NoExc
        /\ slot[s].sub = 0
        /\ slot[s].resp = Response(401, MsgNotAuthenticated, NoHeader)

\* a valid access token under a scheme written in lower case is refused
C11_Witness ==
    \E s \in Slots :
        /\ Verified(s) /\ slot[s].req.auth.scheme = "bearer "
        /\ slot[s].tok \in issued /\ slot[s].tok.type = "access"
        /\ slot[s].tok.exp > now
        /\ slot[s].resp.status = 401 /\ ~slot[s].handled

\* C12: a request whose path is in EXCLUDE_PATHS or starts with an entry of
\* EXCLUDE_PREFIXES, and every OPTIONS request, reaches the handler with
\* nothing verified, whatever its Authorization header holds.
C12_AllowListBypass ==
    \A s \in Slots :
        (/\ slot[s].op = "gate"
         /\ \/ slot[s].req.path \in EXCLUDE_PATHS
            \/ \E p \in EXCLUDE_PREFIXES : startswith(slot[s].req.path, p)
            \/ slot[s].req.method = "OPTIONS") =>
            /\ slot[s].handled
            /\ slot[s].exc = NoExc
            /\ slot[s].sub = 0
            /\ slot[s].resp.status # 401

\* a path under an excluded prefix, and an OPTIONS request to a protected
\* path, pass with a token that would not verify
C12_Witness ==
    \E s \in Slots :
        /\ slot[s].op = "gate" /\ slot[s].handled
        /\ slot[s].req.auth.scheme = "Bearer "
        /\ decode_access(slot[s].tok, now).exc # NoExc
        /\ \/ slot[s].req.path = <<"/api/v1/auth", "/logout">>
           \/ slot[s].req.method = "OPTIONS"

\* C13: timestamps are whole unix seconds and the expiry comparison
\* includes the boundary: a validly signed token decoded at now fails with
\* TokenExpired exactly when now >= exp, and decodes when exp >= now + 1.
C13_ExpiryBoundary ==
    /\ \A tok \in issued : tok.iat \in Nat /\ tok.exp \in Nat
    /\ \A s \in Slots : slot[s].op = "decode" /\ Genuine(slot[s].tok) =>
          /\ (slot[s].exc = TokenExpired) <=> (now >= slot[s].tok.exp)
          /\ slot[s].tok.exp = now => slot[s].exc = TokenExpired
          /\ slot[s].tok.exp >= now + 1 =>
                slot[s].exc = NoExc /\ slot[s].sub = slot[s].tok.sub

\* one second before its expiry a token decodes
C13_Witness ==
    \E s \in Slots :
        /\ slot[s].op = "decode" /\ Genuine(slot[s].tok)
        /\ slot[s].tok.exp = now + 1
        /\ slot[s].exc = NoExc

\* C14: _decode_token fails with TokenExpired exactly when the token is
\* validly signed and past its expiry, with TokenInvalid exactly when it is
\* not validly signed (malformed, wrong key, other algorithm), expired or
\* not, and returns the payload in the one case left.
C14_DecodeClassification ==
    \A s \in Slots : slot[s].op = "decode" =>
        /\ slot[s].exc \in {NoExc, TokenExpired, TokenInvalid(MsgTokenInvalid)}
        /\ (slot[s].exc = TokenExpired) <=>
              (Genuine(slot[s].tok) /\ slot[s].tok.exp <= now)
        /\ (slot[s].exc = TokenInvalid(MsgTokenInvalid)) <=>
              ~Genuine(slot[s].tok)
        /\ (slot[s].exc = NoExc) <=>
              (Genuine(slot[s].tok) /\ slot[s].tok.exp > now)
        /\ slot[s].exc = NoExc => slot[s].sub = slot[s].tok.sub

\* a token that is both re-signed and past its expiry is invalid
C14_Witness ==
    \E s \in Slots :
        /\ slot[s].op = "decode"
        /\ slot[s].tok.form = "jwt" /\ slot[s].tok.key # SECRET_KEY
        /\ slot[s].tok.exp <= now
        /\ slot[s].exc = TokenInvalid(MsgTokenInvalid)

\* C15: every token the service mints, at login or at refresh, of either
\* type, has a token id no other minted token has, also when subject and
\* timestamps are the same; the two tokens of a login pair differ, and both
\* tokens of a pair returned by refresh differ from the token presented and
\* from every token minted before.
C15_TokenIdUnique ==
    /\ Cardinality({tok.jti : tok \in issued}) = ctr
    /\ Cardinality(issued) = ctr
    /\ \A s \in Slots : slot[s].pair # NoPair =>
          /\ slot[s].op \in {"login", "refresh"}
          /\ slot[s].pair.access_token # slot[s].pair.refresh_token
          /\ slot[s].pair.access_token.jti # slot[s].pair.refresh_token.jti
          /\ slot[s].tok \notin
                {slot[s].pair.access_token, slot[s].pair.refresh_token}
          /\ slot[s].tok.jti \notin
                {slot[s].pair.access_token.jti, slot[s].pair.refresh_token.jti}

\* a refresh returned a pair, and two minted tokens agree in everything but
\* their id
C15_Witness ==
    /\ \E s \in Slots : RefreshDone(s) /\ slot[s].exc = NoExc
    /\ \E t1, t2 \in issued :
          t1 # t2 /\ [t1 EXCEPT !.jti = 0] = [t2 EXCEPT !.jti = 0]

\* the account a login names, if there is one
Account(login) ==
    IF \E i \in 1..Len(login) : login[i] = "@"
    THEN {u \in users : casefold(strip(u.email)) = casefold(strip(login))}
    ELSE {u \in users : casefold(strip(u.username)) = casefold(strip(login))}

\* C16: authenticate fails in one way only: with a login that names no
\* account and with the login of an account and a wrong password the caller
\* gets the same InvalidCredentials, the same 401 and the same message; it
\* succeeds only for an account and its password.
C16_CredentialFailure ==
    \A s \in Slots : slot[s].op = "authenticate" =>
        /\ slot[s].exc \in {NoExc, InvalidCredentials(MsgInvalidCredentials)}
        /\ slot[s].exc # NoExc =>
              slot[s].resp = Response(401, MsgInvalidCredentials, WwwBearer)
        /\ Account(slot[s].login) = {} => slot[s].exc # NoExc
        /\ slot[s].exc = NoExc =>
              \E u \in Account(slot[s].login) :
                  /\ u.id = slot[s].sub
                  /\ verify_password(slot[s].password, u.hashed_password)

\* the login of an account, written in another case, with a wrong password
C16_Witness ==
    \E s \in Slots :
        /\ slot[s].op = "authenticate"
        /\ Account(slot[s].login) # {}
        /\ \A u \in Account(slot[s].login) :
              ~verify_password(slot[s].password, u.hashed_password)
        /\ slot[s].exc = InvalidCredentials(MsgInvalidCredentials)

C17_State == \A r1, r2 \in ledger : r1.jti = r2.jti => r1.revoked_at = r2.revoked_at
C17_Step ==
    /\ ledger \subseteq ledger'
    /\ \A r \in ledger' : r.jti \in LedgerJtis(ledger) => r \in ledger

\* C17: through login, refresh, logout and gate requests the ledger only
\* grows: a row once committed is never deleted, and no step commits
\* another revoked_at for a token id that has a row.
C17_LedgerGrows == []C17_State /\ [][C17_Step]_vars

\* a token revoked at one time is revoked again at a later time
C17_Witness ==
    \E s \in Slots :
        /\ RevokeDone(s) /\ slot[s].exc = NoExc
        /\ \E r \in ledger : r.jti = slot[s].tok.jti /\ r.revoked_at < now

\* C18: the pair a successful refresh returns is for the subject of the
\* token presented and for no other: both new tokens carry its sub, the
\* access token has type access and the refresh token type refresh.
C18_SubjectPreserved ==
    \A s \in Slots : RefreshDone(s) /\ slot[s].exc = NoExc =>
        /\ slot[s].pair.access_token.sub = slot[s].tok.sub
        /\ slot[s].pair.refresh_token.sub = slot[s].tok.sub
        /\ slot[s].pair.access_token.type = "access"
        /\ slot[s].pair.refresh_token.type = "refresh"
        /\ Genuine(slot[s].pair.access_token)
        /\ Genuine(slot[s].pair.refresh_token)

\* the refresh token of the second user is rotated
C18_Witness ==
    \E s \in Slots :
        /\ RefreshDone(s) /\ slot[s].exc = NoExc
        /\ slot[s].tok.sub = 2
        /\ slot[s].pair.refresh_token \in issued

C19_State ==
    \A s \in Slots : RefreshDone(s) =>
        /\ slot[s].exc \in StorageFailures =>
              slot[s].pair = NoPair /\ slot[s].resp.status = 500
        /\ slot[s].pair # NoPair => slot[s].exc = NoExc
C19_Step ==
    \A s \in Slots : slot[s].pc = "rf_select" /\ slot'[s] # slot[s] =>
        \/ /\ slot'[s].pc = "rf_resume"
           /\ slot'[s].found <=> slot[s].tok.jti \in LedgerJtis(ledger)
        \/ /\ slot'[s].pc = "done"
           /\ slot'[s].exc \in StorageFailures
           /\ slot'[s].pair = NoPair
           /\ slot'[s].resp.status = 500
           /\ issued' = issued

\* C19: a ledger lookup of refresh that fails because the database is
\* unavailable ends the request with a 500 response and no token minted; a
\* refresh goes on past the lookup only with what the ledger really holds.
C19_StorageFailureSurfaces == []C19_State /\ [][C19_Step]_vars

\* the lookup fails for a token that is revoked
C19_Witness ==
    \E s \in Slots :
        /\ RefreshDone(s) /\ slot[s].exc = DBAPIError
        /\ slot[s].tok.jti \in LedgerJtis(ledger)
        /\ slot[s].resp = Response(500, MsgDatabaseError, NoHeader)

\* the payload names a stored user: by username or by email, compared in
\* lower case and without surrounding blanks
Existing(p) ==
    \E u \in users :
        \/ casefold(strip(u.username)) = casefold(strip(p.username))
        \/ casefold(strip(u.email)) = casefold(strip(p.email))
C20_State ==
    \A s \in Slots :
        slot[s].op \in {"create_user", "create_users"} /\ slot[s].exc # NoExc =>
            slot[s].resp.status = 409
C20_Step ==
    \A s \in Slots :
        (/\ slot'[s].op \in {"create_user", "create_users"}
         /\ \E i \in 1..Len(slot'[s].batch) : Existing(slot'[s].batch[i])) =>
            /\ slot'[s].exc.kind = "UserAlreadyExistsException"
            /\ users' = users

\* C20: create_user with a username or an email of a stored user, compared
\* in lower case and trimmed, raises UserAlreadyExistsException and stores
\* nothing; so does create_users when any payload of the batch names a
\* stored user, and then no user of the batch is stored.
C20_CreationConflict == []C20_State /\ [][C20_Step]_vars

\* a batch whose second payload has the email of a stored user in another
\* case is refused
C20_Witness ==
    \E s \in Slots :
        /\ slot[s].op = "create_users" /\ Len(slot[s].batch) = 2
        /\ slot[s].exc = UserAlreadyExistsException("email")
        /\ ~Existing(slot[s].batch[1])
        /\ \E u \in users :
              /\ u.email # slot[s].batch[2].email
              /\ casefold(u.email) = casefold(slot[s].batch[2].email)

\* a slot that holds the ProjectsPage a list_projects call returned
Listed(s) == slot[s].op = "list_projects" /\ slot[s].exc = NoExc
\* the projects that match the filters of the call of slot s
Matching(s) ==
    {p \in projects :
        /\ (slot[s].arg[3] # NoStatus => p.status = slot[s].arg[3])
        /\ (slot[s].arg[4] # NoPerson => p.person_in_charge = slot[s].arg[4])}
\* the page of slot s obeys the arithmetic of the claim for this offset
PageArithmetic(s, offset) ==
    LET r == slot[s].ret[1]
    IN  /\ r.per_page = min(slot[s].arg[2], PER_PAGE_MAX)
        /\ r.total_count = Cardinality(Matching(s))
        /\ Len(r.items) = min(r.per_page, max(0, r.total_count - offset))
        /\ (r.has_prev <=> slot[s].arg[1] > 1)
        /\ (r.has_next <=> offset + Len(r.items) < r.total_count)

Ids(rows) == {r.id : r \in rows}
\* the call that ends in this step is one of ops and names an id that is
\* not stored: it raises exc and leaves both stores as they were
AbsentRefused(ops, rows, exc) ==
    \A s \in Slots :
        slot'[s].op \in ops /\ slot'[s].arg[1] \notin Ids(rows) =>
            /\ slot'[s].exc = exc
            /\ users' = users /\ projects' = projects
\* an id that was drawn and is stored no more is never stored again
Final(last, rows, rowsAfter) ==
    \A i \in 1..last : i \notin Ids(rows) => i \notin Ids(rowsAfter)
C22_Step ==
    /\ AbsentRefused({"get_one", "update_one", "delete_one"}, projects,
                     ProjectNotFoundException)
    /\ AbsentRefused({"get_user", "update_user", "delete_user"}, users,
                     UserNotFoundException)
    /\ \A s \in Slots :
          /\ slot'[s].op = "delete_one" /\ slot'[s].exc = NoExc =>
                slot'[s].arg[1] \in Ids(projects) \ Ids(projects')
          /\ slot'[s].op = "delete_user" /\ slot'[s].exc = NoExc =>
                slot'[s].arg[1] \in Ids(users) \ Ids(users')
    /\ Final(seq.projects, projects, projects')
    /\ Final(seq.users, users, users')

\* C22: a delete_one (delete_user) that succeeds removes the project (user)
\* from the store, the id is never stored again, and every get, update or
\* delete of an id that is not stored raises ProjectNotFoundException
\* (UserNotFoundException) and changes nothing.
C22_DeleteIsFinal == [][C22_Step]_vars

\* a second delete of a project is refused while a project created after
\* the first delete is stored
C22_Witness ==
    \E s \in Slots :
        /\ slot[s].op = "delete_one"
        /\ slot[s].exc = ProjectNotFoundException
        /\ slot[s].arg[1] <= seq.projects
        /\ projects # {}

\* C30: no two stored users have the same username or the same email when
\* both are compared in lower case and trimmed, whatever create_user,
\* create_users, update_user and delete_user calls came before.
C30_LoginIdentifierUnique ==
    \A u, v \in users :
        u.id # v.id =>
            /\ func_lower_trim(u.username) # func_lower_trim(v.username)
            /\ func_lower_trim(u.email) # func_lower_trim(v.email)

\* the token is in the active state at this instant
Active(tok) == Genuine(tok) /\ tok.type = "refresh" /\ tok.exp > now
C23_State ==
    \A s \in Slots : slot[s].op = "refresh" =>
        /\ slot[s].pc # "done" \/ slot[s].pair # NoPair =>
              Genuine(slot[s].tok) /\ slot[s].tok.type = "refresh"
        /\ slot[s].pair # NoPair => ~slot[s].found
C23_Step ==
    \A s \in Slots :
        \* the call begins: decode and the type check
        /\ slot[s].pc = "done" /\ slot'[s].op = "refresh" =>
              /\ ~Active(slot'[s].tok) =>
                    /\ slot'[s].pc = "done" /\ slot'[s].pair = NoPair
                    /\ slot'[s].exc.kind \in {"TokenExpired", "TokenInvalid"}
              /\ Genuine(slot'[s].tok) /\ slot'[s].tok.exp <= now =>
                    slot'[s].exc = TokenExpired
              /\ Active(slot'[s].tok) => slot'[s].pc = "rf_select"
        \* the lookup reads the ledger as it is then
        /\ slot[s].pc = "rf_select" /\ slot'[s].pc = "rf_resume" =>
              slot'[s].found = (slot[s].tok.jti \in LedgerJtis(ledger))
        \* the call ends
        /\ slot[s].pc = "rf_resume" /\ slot'[s].pc = "done" =>
              IF slot[s].found
              THEN /\ slot'[s].exc = TokenInvalid(MsgRefreshRevoked)
                   /\ slot'[s].pair = NoPair /\ issued' = issued
              ELSE slot'[s].pair # NoPair
        /\ slot'[s].op = "refresh" /\ slot'[s].pair # NoPair
              /\ slot[s].pair = NoPair =>
              slot[s].pc = "rf_resume" /\ ~slot[s].found

\* C23: refresh(t) returns a new pair only when t is validly signed, of type
\* refresh, unexpired when it is decoded and its jti is absent from the
\* ledger when the lookup reads it; a revoked or an expired token is never
\* rotated, and a token that is expired and revoked fails at decode with
\* TokenExpired, before the ledger is read.
C23_RotationFromActive == []C23_State /\ [][C23_Step]_vars

\* a revoked token presented after its expiry fails with TokenExpired
C23_Witness ==
    \E s \in Slots :
        /\ RefreshDone(s) /\ Genuine(slot[s].tok)
        /\ slot[s].tok.jti \in LedgerJtis(ledger)
        /\ slot[s].tok.exp <= now
        /\ slot[s].exc = TokenExpired /\ slot[s].pair = NoPair

\* a slot that holds the pair a login or a refresh returned
Minted(s) == slot[s].op \in {"login", "refresh"} /\ slot[s].pair # NoPair
C24_State ==
    \A s \in Slots : Minted(s) =>
        LET a == slot[s].pair.access_token
            r == slot[s].pair.refresh_token
        IN  /\ a.iat = r.iat
            /\ a.exp = a.iat + ACCESS_TTL_MIN * 60
            /\ r.exp = r.iat + REFRESH_TTL_DAYS * 24 * 60 * 60
            /\ a.iat \in Nat /\ a.exp \in Nat /\ r.exp \in Nat
C24_Step ==
    \A s \in Slots :
        /\ slot'[s].pair # NoPair /\ slot'[s].pair # slot[s].pair =>
              slot'[s].pair.access_token.iat = now
        /\ slot'[s].op = "login" =>
              ledger' = ledger /\ users' = users /\ projects' = projects

\* C24: the access and the refresh token of a pair minted by issue_tokens
\* or by refresh carry the same iat, the time of the minting; access.exp =
\* iat + ACCESS_TTL_MIN minutes and refresh.exp = iat + REFRESH_TTL_DAYS
\* days, in whole seconds; issue_tokens leaves the ledger and the tables as
\* they are.
C24_IssuerTiming == []C24_State /\ [][C24_Step]_vars

\* a pair minted by refresh after the clock has moved
C24_Witness ==
    \E s \in Slots :
        /\ Minted(s) /\ slot[s].op = "refresh"
        /\ slot[s].pair.refresh_token.iat > Epoch
        /\ slot[s].pair.refresh_token.iat = now

\* TokenPayload.validate_payload, on the claims of a token
ValidPayload(tok) ==
    /\ tok.sub # 0
    /\ tok.jti # 0
    /\ tok.iat > 0 /\ tok.exp > 0
    /\ tok.exp > tok.iat

\* C25: every payload the service signs has a non-empty subject, a
\* non-empty token id, issued_at > 0 and expires_at > issued_at; a payload
\* that is not so is never signed.
C25_PayloadValid == \A tok \in issued : ValidPayload(tok)

\* C26: a request the gate has to verify and forwards carries, as the
\* subject bound into its context, the sub claim of the access token it
\* presented, and nothing else.
C26_SubjectBinding ==
    \A s \in Slots : Verified(s) /\ slot[s].handled =>
        /\ slot[s].req.auth.scheme = "Bearer "
        /\ slot[s].req.auth.cred \in issued
        /\ slot[s].req.auth.cred.type = "access"
        /\ slot[s].sub = slot[s].req.auth.cred.sub

\* a forwarded request of the second user, after tokens of the first user
\* were issued as well
C26_Witness ==
    \E s \in Slots :
        /\ Verified(s) /\ slot[s].handled
        /\ slot[s].sub = 2
        /\ \E tok \in issued : tok.sub = 1

C27_State ==
    \A s \in Slots : RevokeDone(s) /\ slot[s].exc # NoExc => slot[s].pend = {}
C27_Step ==
    /\ \A s \in Slots :
          \* a token that is not an active refresh token fails at once
          /\ slot[s].pc = "done" /\ slot'[s].op = "revoke"
                /\ ~Active(slot'[s].tok) =>
                slot'[s].pc = "done" /\ slot'[s].exc # NoExc
          \* the step in which a revocation fails writes nothing
          /\ slot'[s].op = "revoke" /\ slot'[s].exc # NoExc =>
                ledger' = ledger
    \* nothing but the commit of a revocation changes the ledger
    /\ ledger' # ledger =>
          \E s \in Slots :
              /\ slot[s].op = "revoke" /\ slot[s].pc = "rv_commit"
              /\ slot'[s].pc = "done" /\ slot'[s].exc = NoExc
              /\ ledger' \ ledger \subseteq slot[s].pend

\* C27: a revoke_refresh_token call that fails - the token is expired,
\* badly signed, malformed or of type access, or the insert fails before
\* the commit - leaves the ledger exactly as it was before the call.
C27_FailedRevocation == []C27_State /\ [][C27_Step]_vars

\* the insert fails while another token is in the ledger: that row stays,
\* no row is added
C27_Witness ==
    \E s \in Slots :
        /\ RevokeDone(s) /\ slot[s].exc \in StorageFailures
        /\ slot[s].tok.jti \notin LedgerJtis(ledger)
        /\ ledger # {}

\* the refresh token minted in one pair with the access token tok
Sibling(tok) ==
    CHOOSE r \in issued :
        r.type = "refresh" /\ r.jti = tok.jti + 1 /\ r.iat = tok.iat

\* C28: the gate accepts an access token the service issued exactly while
\* it is unexpired, whatever the ledger holds - also after the refresh token
\* of its pair was revoked; every jti in the ledger is the jti of a refresh
\* token, never of an access token.
C28_GateIgnoresLedger ==
    /\ \A s \in Slots :
          (/\ Verified(s) /\ slot[s].req.auth.scheme = "Bearer "
           /\ slot[s].tok \in issued /\ slot[s].tok.type = "access") =>
              (slot[s].handled <=> slot[s].tok.exp > now)
    /\ \A row \in ledger :
          /\ \E tok \in issued : tok.jti = row.jti /\ tok.type = "refresh"
          /\ \A tok \in issued : tok.type = "access" => tok.jti # row.jti

\* an access token is accepted after the refresh token of its pair was
\* revoked
C28_Witness ==
    \E s \in Slots :
        /\ Verified(s) /\ slot[s].handled
        /\ slot[s].tok \in issued
        /\ Sibling(slot[s].tok).jti \in LedgerJtis(ledger)

C29_State ==
    \A s \in Slots : RefreshDone(s) =>
        /\ slot[s].exc.kind = "TokenInvalid" =>
              slot[s].tok.jti \in LedgerJtis(ledger)
        /\ slot[s].tok.jti \notin LedgerJtis(ledger) /\ slot[s].tok.exp > now =>
              slot[s].pair # NoPair
C29_Step ==
    ledger' # ledger =>
        \E s \in Slots :
            /\ slot[s].op = "revoke" /\ slot[s].pc = "rv_commit"
            /\ LedgerJtis(ledger') = LedgerJtis(ledger) \cup {slot[s].tok.jti}

\* C29: revoke_refresh_token(t) adds the jti of t to the ledger and no
\* other; a refresh token minted from t is refused as revoked only when its
\* own jti is in the ledger, and is rotated while it is unexpired and its
\* own jti is not there, also after t was revoked.
C29_NoCascade == []C29_State /\ [][C29_Step]_vars

\* a token minted from t is rotated after t was revoked
C29_Witness ==
    \E s \in Slots :
        /\ RefreshDone(s) /\ slot[s].pair # NoPair
        /\ \E r \in rotations :
              /\ r.to = slot[s].tok.jti
              /\ r.of \in LedgerJtis(ledger)
              /\ [of |-> r.to, to |-> slot[s].pair.refresh_token.jti]
                    \in rotations
====
